---- MODULE Spec2Model ----
(***************************************************************************)
(* Model of fix_relations.py: read prisma/schema.prisma, apply the two     *)
(* re.sub passes (model Post, model Page), write the file back, print the  *)
(* confirmation line.                                                      *)
(*                                                                         *)
(* The file text is a sequence of lexical pieces.  Each piece stands for   *)
(* a stretch of characters that the two regular expressions treat as a     *)
(* unit:                                                                    *)
(*   "P"  model Post {                                                      *)
(*   "G"  model Page {                                                      *)
(*   "M"  the header of another model:  model Note {                        *)
(*   "T"  user User @relation(fields: [authorId], references: [id])         *)
(*   "A"  author User @relation(fields: [authorId], references: [id])       *)
(*   "U"  a line whose name is user but which is no such relation:          *)
(*        user Int                                                          *)
(*   "}"  a closing brace                                                   *)
(* Every piece ends with a newline.  No piece other than "}" contains a     *)
(* closing brace, so [^}]*? runs over every piece except "}".               *)
(***************************************************************************)
EXTENDS Integers, Sequences, FiniteSets, TLC

\* ---------------------------------------------------------------- bounds
MaxLen == 4
MaxRuns == 2
MaxOrderLen == 6

\* ------------------------------------------------------------ the pieces
Pieces == {"P", "G", "M", "T", "A", "U", "}"}

\* Number of characters of each piece as it is spelled in the file.
CharLen(p) ==
  CASE p = "P" -> 13
    [] p = "G" -> 13
    [] p = "M" -> 13
    [] p = "T" -> 58
    [] p = "A" -> 60
    [] p = "U" -> 9
    [] p = "}" -> 2

RECURSIVE TextLen(_)
TextLen(s) == IF s = <<>> THEN 0 ELSE CharLen(Head(s)) + TextLen(Tail(s))

Texts == UNION {[1..n -> Pieces] : n \in 0..MaxLen}

\* Longer texts over the pieces the two patterns react to, for the
\* comparison of the two orders of the passes.
OrderPieces == {"P", "G", "T", "}"}
OrderTexts == UNION {[1..n -> OrderPieces] : n \in 0..MaxOrderLen}

\* Values that are no text: the path names no file; content is not yet bound.
NoFile == <<"ENOENT">>
None == <<"unset">>

\* --------------------------------------------------------------- re.sub
\* [^}]*? followed by \buser(\s+User\s+@relation\(fields: \[authorId\]):
\* the nearest target line after position h that no closing brace
\* separates from h; 0 when the search meets a brace or the end first.
\* Variant: the span is .*? and runs over closing braces.
RECURSIVE FirstTargetAcrossBrace(_, _)
FirstTargetAcrossBrace(s, h) ==
  IF h + 1 > Len(s) THEN 0
  ELSE IF s[h + 1] = "T" THEN h + 1
  ELSE FirstTargetAcrossBrace(s, h + 1)

\* Variant: the pattern ends at \buser and takes any line named user.
RECURSIVE FirstTargetAnyUser(_, _)
FirstTargetAnyUser(s, h) ==
  IF h + 1 > Len(s) THEN 0
  ELSE IF s[h + 1] = "}" THEN 0
  ELSE IF s[h + 1] \in {"T", "U"} THEN h + 1
  ELSE FirstTargetAnyUser(s, h + 1)

RECURSIVE FirstTarget(_, _)
FirstTarget(s, h) ==
  IF h + 1 > Len(s) THEN 0
  ELSE IF s[h + 1] = "}" THEN 0
  ELSE IF s[h + 1] = "T" THEN h + 1
  ELSE FirstTarget(s, h + 1)

\* The replacement \1author\2: group 1 (header and span) and group 2 (the
\* rest of the line) are copied, the token user becomes author.
Rename(s, t) == [s EXCEPT ![t] = "A"]

\* re.sub without count: scan from position i; at a header of the model,
\* try the match; after a match the scan resumes behind the matched text,
\* after a failure at the next position.
\* Variant: re.sub(..., count=1) stops behind the first match.
RECURSIVE SubFromOnce(_, _, _)
SubFromOnce(hdr, s, i) ==
  IF i > Len(s) THEN s
  ELSE IF s[i] = hdr /\ FirstTarget(s, i) # 0
       THEN Rename(s, FirstTarget(s, i))
       ELSE SubFromOnce(hdr, s, i + 1)

RECURSIVE SubFrom(_, _, _)
SubFrom(hdr, s, i) ==
  IF i > Len(s) THEN s
  ELSE IF s[i] = hdr /\ FirstTarget(s, i) # 0
       THEN SubFrom(hdr, Rename(s, FirstTarget(s, i)), FirstTarget(s, i) + 1)
       ELSE SubFrom(hdr, s, i + 1)

ReSub(hdr, s) == SubFrom(hdr, s, 1)

SubPost(s) == ReSub("P", s)

\* Variant: the second pattern names a model that is not Page.
SubPageOtherModel(s) == ReSub("M", s)

SubPage(s) == ReSub("G", s)

\* ---------------------------------------------------------------- state
VARIABLES
  disk,     \* content of prisma/schema.prisma, or NoFile
  content,  \* the script's variable content, None before the read
  pc,       \* the statement the process has reached
  status,   \* "running", "exited", "failed" (uncaught exception), "crashed"
  out,      \* number of lines printed by this run
  run,      \* how many times the script has been started
  orig,     \* history: disk when this run started
  mid       \* history: content between the two passes, None before

vars == <<disk, content, pc, status, out, run, orig, mid>>

Init ==
  /\ disk \in Texts \cup {NoFile}
  /\ content = None
  /\ pc = "start"
  /\ status = "running"
  /\ out = 0
  /\ run = 1
  /\ orig = disk
  /\ mid = None

\* Variant: the file is opened in a mode that creates it when missing.
ReadFileCreating ==
  /\ status = "running" /\ pc = "start"
  /\ disk' = IF disk = NoFile THEN <<>> ELSE disk
  /\ content' = disk'
  /\ pc' = "read"
  /\ UNCHANGED <<status, out, run, orig, mid>>

\* with open('prisma/schema.prisma', 'r') as f: content = f.read()
ReadFile ==
  /\ status = "running" /\ pc = "start"
  /\ disk # NoFile
  /\ content' = disk
  /\ pc' = "read"
  /\ UNCHANGED <<disk, status, out, run, orig, mid>>

\* open(..., 'r') raises: the file is missing or may not be read.
ReadFail ==
  /\ status = "running" /\ pc = "start"
  /\ status' = "failed"
  /\ UNCHANGED <<disk, content, pc, out, run, orig, mid>>

\* Variant: the result of the first pass is saved to the file at once.
PostPassSaving ==
  /\ status = "running" /\ pc = "read"
  /\ content' = SubPost(content)
  /\ mid' = content'
  /\ disk' = content'
  /\ pc' = "post"
  /\ UNCHANGED <<status, out, run, orig>>

\* content = re.sub(r'(model Post \{[^}]*?)\buser(...)', r'\1author\2', ...)
PostPass ==
  /\ status = "running" /\ pc = "read"
  /\ content' = SubPost(content)
  /\ mid' = content'
  /\ pc' = "post"
  /\ UNCHANGED <<disk, status, out, run, orig>>

\* content = re.sub(r'(model Page \{[^}]*?)\buser(...)', r'\1author\2', ...)
PagePass ==
  /\ status = "running" /\ pc = "post"
  /\ content' = SubPage(content)
  /\ pc' = "page"
  /\ UNCHANGED <<disk, status, out, run, orig, mid>>

\* open('prisma/schema.prisma', 'w'): the file is truncated.
OpenWrite ==
  /\ status = "running" /\ pc = "page"
  /\ disk' = <<>>
  /\ pc' = "writing"
  /\ UNCHANGED <<content, status, out, run, orig, mid>>

\* open(..., 'w') raises (permission denied): nothing is truncated.
WriteFail ==
  /\ status = "running" /\ pc = "page"
  /\ status' = "failed"
  /\ UNCHANGED <<disk, content, pc, out, run, orig, mid>>

\* f.write(content) and the close at the end of the with block.
WriteFile ==
  /\ status = "running" /\ pc = "writing"
  /\ disk' = content
  /\ pc' = "written"
  /\ UNCHANGED <<content, status, out, run, orig, mid>>

\* Variant: the line is printed only when a pass changed the text.
PrintIfChanged ==
  /\ status = "running" /\ pc = "written"
  /\ out' = IF content # orig THEN out + 1 ELSE out
  /\ pc' = "done"
  /\ status' = "exited"
  /\ UNCHANGED <<disk, content, run, orig, mid>>

\* f.write(content) or the close raises (no space left, I/O error): any
\* prefix of content may have reached the file.
WriteError ==
  /\ status = "running" /\ pc = "writing"
  /\ \E k \in 0..Len(content) : disk' = SubSeq(content, 1, k)
  /\ status' = "failed"
  /\ UNCHANGED <<content, pc, out, run, orig, mid>>

\* print('Fixed Post and Page author relations'), then the script ends.
PrintDone ==
  /\ status = "running" /\ pc = "written"
  /\ out' = out + 1
  /\ pc' = "done"
  /\ status' = "exited"
  /\ UNCHANGED <<disk, content, run, orig, mid>>

\* The process is killed before the write has begun or after it has ended.
Crash ==
  /\ status = "running" /\ pc # "writing"
  /\ status' = "crashed"
  /\ UNCHANGED <<disk, content, pc, out, run, orig, mid>>

\* The process is killed inside the with block of the write: any prefix of
\* content may have reached the file.
CrashInWrite ==
  /\ status = "running" /\ pc = "writing"
  /\ \E k \in 0..Len(content) : disk' = SubSeq(content, 1, k)
  /\ status' = "crashed"
  /\ UNCHANGED <<content, pc, out, run, orig, mid>>

\* The script is started again on the file a successful run left.
Rerun ==
  /\ status = "exited" /\ run < MaxRuns
  /\ run' = run + 1
  /\ orig' = disk
  /\ content' = None
  /\ mid' = None
  /\ pc' = "start"
  /\ status' = "running"
  /\ out' = 0
  /\ UNCHANGED disk

Next ==
  \/ ReadFile \/ ReadFail \/ PostPass \/ PagePass
  \/ OpenWrite \/ WriteFail \/ WriteFile \/ WriteError \/ PrintDone
  \/ Crash \/ CrashInWrite \/ Rerun

Spec == Init /\ [][Next]_vars

\* ------------------------------------------- the two orders of the passes
\* The passes as pure functions of the text that was read: the order of the
\* script (PostPass, PagePass) beside the opposite order.
InitOrder ==
  /\ disk \in OrderTexts
  /\ content = None
  /\ pc = "start"
  /\ status = "running"
  /\ out = 0
  /\ run = 1
  /\ orig = disk
  /\ mid = None

\* The Page substitution applied to the text as read.
PageFirst ==
  /\ status = "running" /\ pc = "read"
  /\ content' = SubPage(content)
  /\ mid' = content'
  /\ pc' = "pagefirst"
  /\ UNCHANGED <<disk, status, out, run, orig>>

\* The Post substitution applied to the result of PageFirst.
PostSecond ==
  /\ status = "running" /\ pc = "pagefirst"
  /\ content' = SubPost(content)
  /\ pc' = "swapped"
  /\ UNCHANGED <<disk, status, out, run, orig, mid>>

NextOrder ==
  \/ ReadFile \/ PostPass \/ PagePass \/ PageFirst \/ PostSecond

SpecOrder == InitOrder /\ [][NextOrder]_vars

\* ------------------------------------------------- vocabulary of the claims
IsText(s) == s # NoFile /\ s # None

\* Positions at which two texts of the same number of pieces differ.
Changed(a, b) == {i \in 1..Len(a) : a[i] # b[i]}

\* The target lines that are the first one after some header in hdrs:
\* neither a closing brace nor another target line lies between the header
\* and the line.
FirstTargets(s, hdrs) ==
  {t \in 1..Len(s) :
     /\ s[t] = "T"
     /\ \E h \in 1..(t - 1) :
          s[h] \in hdrs /\ \A k \in (h + 1)..(t - 1) : s[k] \notin {"}", "T"}}

\* Position i lies between a header in hdrs and the first closing brace
\* after that header.
InSpan(s, i, hdrs) ==
  \E h \in 1..(i - 1) : s[h] \in hdrs /\ \A k \in (h + 1)..(i - 1) : s[k] # "}"

\* The name of the model a line belongs to: the nearest header before it.
RECURSIVE Owner(_, _)
Owner(s, i) ==
  IF i < 1 THEN "none"
  ELSE IF s[i] \in {"P", "G", "M"} THEN s[i]
  ELSE Owner(s, i - 1)

Finished == status = "exited"

\* The result of one whole run on the text this run started from.
BothPasses(s) == SubPage(SubPost(s))

\* No exception is raised by a substitution: a run fails only at an open or
\* inside the write.
FailsOnlyAtIO == status = "failed" => pc \in {"start", "page", "writing"}

\* ----------------------------------------------------------------- C1
\* C1: after a run, the first target line after every Post or Page header
\* (no closing brace in between) reads author, and every other piece of the
\* file, later target lines of the same block included, is as in the input.
C1_OnlyFirstTargetsRenamed ==
  Finished =>
    \A i \in 1..Len(orig) :
      disk[i] = IF i \in FirstTargets(orig, {"P", "G"}) THEN "A" ELSE orig[i]

\* ----------------------------------------------------------------- C2
\* C2: idempotence: a second run on the file the first run left does not
\* change it.
C2_SecondRunChangesNothing ==
  (Finished /\ run = 2) => disk = orig

\* ----------------------------------------------------------------- C3
\* C3: after a run, every piece that lies in no span from a Post or Page
\* header to the first closing brace after it is as in the input; so is a
\* target line of a third model outside those spans.
C3_OutsideBlocksUntouched ==
  Finished =>
    \A i \in 1..Len(orig) :
      ~InSpan(orig, i, {"P", "G"}) => disk[i] = orig[i]

\* A run renamed a line, and the input held a target line of a third model
\* outside the Post and Page spans.
C3_Witness ==
  /\ Finished /\ disk # orig
  /\ \E i \in 1..Len(orig) :
       /\ orig[i] = "T" /\ Owner(orig, i) = "M"
       /\ ~InSpan(orig, i, {"P", "G"})
       /\ disk[i] = "T"

\* ----------------------------------------------------------------- C4
\* C4: when no Post or Page header of the input has a target line before
\* the next closing brace, a run that ends leaves the file as it was, and
\* the run can fail only at the file operations, never in a substitution.
C4_AbsentPatternIsNoOp ==
  (IsText(orig) /\ FirstTargets(orig, {"P", "G"}) = {}) =>
    /\ Finished => disk = orig
    /\ pc \in {"post", "page", "writing", "written", "done"} => content = orig
    /\ FailsOnlyAtIO

\* A finished run on a file with a Post or Page header and a line named
\* user, yet no match.
C4_Witness ==
  /\ Finished /\ run = 1
  /\ FirstTargets(orig, {"P", "G"}) = {}
  /\ \E h, i \in 1..Len(orig) :
       h < i /\ orig[h] \in {"P", "G"} /\ orig[i] \in {"T", "U"}

\* ----------------------------------------------------------------- C5
\* C5: when the file is missing at the start of the run, the run never gets
\* past the read, no file appears, content is never bound, nothing is
\* printed and the run does not end normally.
C5_MissingFileFailsAtRead ==
  orig = NoFile =>
    /\ disk = NoFile
    /\ pc = "start"
    /\ content = None /\ mid = None
    /\ out = 0
    /\ status # "exited"

C5_Witness == orig = NoFile /\ status = "failed"

\* ----------------------------------------------------------------- C6
\* C6: the file holds the original text until the write begins and the text
\* with both passes applied once the write has ended; any other text is on
\* disk only in a run that is, was killed or failed inside the write.
C6_DiskOriginalOrFinal ==
  /\ pc \in {"start", "read", "post", "page"} => disk = orig
  /\ pc \in {"written", "done"} => disk = content /\ content = BothPasses(orig)
  /\ (disk # orig /\ disk # BothPasses(orig)) => pc = "writing"

\* Killed inside the write with part of the text on disk.
C6_Witness ==
  /\ status = "crashed" /\ pc = "writing"
  /\ disk # <<>> /\ disk # orig /\ disk # content
  /\ content # orig

\* ----------------------------------------------------------------- C7
\* C7: the confirmation line is printed at most once, exactly in the runs
\* that end normally, after the file holds the written text, whether or not
\* a pass changed anything; a run that failed has printed nothing.
C7_ConfirmationOncePerSuccess ==
  /\ out <= 1
  /\ out = 1 <=> Finished
  /\ out = 1 => pc = "done" /\ disk = content
  /\ status \in {"failed", "crashed"} => out = 0

\* A run that changed nothing has printed the line.
C7_Witness == Finished /\ out = 1 /\ disk = orig /\ orig # <<>> /\ run = 1

\* ----------------------------------------------------------------- C8
\* C8: a pass renames no line that a closing brace separates from every
\* header of its model before it, and no substitution raises.
C8_SpanStopsAtBrace ==
  /\ pc = "post" =>
       \A i \in Changed(orig, content) : InSpan(orig, i, {"P"})
  /\ pc = "page" =>
       \A i \in Changed(mid, content) : InSpan(mid, i, {"G"})
  /\ FailsOnlyAtIO

\* A finished run that left a target line alone which follows a Post or
\* Page header and a closing brace.
C8_Witness ==
  /\ Finished
  /\ \E h, b, i \in 1..Len(orig) :
       /\ h < b /\ b < i
       /\ orig[h] \in {"P", "G"} /\ orig[b] = "}" /\ orig[i] = "T"
       /\ disk[i] = "T"

\* ----------------------------------------------------------------- C9
\* C9: the Page pass followed by the Post pass gives the text that the Post
\* pass followed by the Page pass gives.
C9_PassesCommute ==
  pc = "swapped" => content = BothPasses(orig)

\* ---------------------------------------------------------------- C10
\* C10: a run renames the first target line after every Post and every Page
\* header of the input, however many headers there are, and the file grows
\* by 2 characters for every line renamed.
C10_EveryMatchRenamed ==
  Finished =>
    /\ \A i \in FirstTargets(orig, {"P", "G"}) : disk[i] = "A"
    /\ \A i \in Changed(orig, disk) : orig[i] = "T" /\ disk[i] = "A"
    /\ TextLen(disk) = TextLen(orig) + 2 * Cardinality(Changed(orig, disk))

\* Two headers of one model, each with its own target line, both renamed.
C10_Witness ==
  /\ Finished
  /\ \E h1, h2 \in 1..Len(orig) :
       /\ h1 < h2 /\ orig[h1] = orig[h2] /\ orig[h1] \in {"P", "G"}
       /\ orig[h1 + 1] = "T" /\ h1 + 1 < h2
       /\ h2 < Len(orig) /\ orig[h2 + 1] = "T"
       /\ disk[h1 + 1] = "A" /\ disk[h2 + 1] = "A"

====
